---- MODULE Spec2Model ----
(***************************************************************************)
(* A model of the quality-measures importer                                *)
(* (scripts/measures/2018/import-quality-measures.js) and of the schema    *)
(* validator script (validate-data.js).                                    *)
(*                                                                         *)
(* JavaScript strings are sequences of one-character strings, so that      *)
(* trim and toLowerCase are computed and not assumed.  A JavaScript value  *)
(* is a record [t, s, n]: t is its type tag, s its characters when it is a *)
(* string, n its number when it is a number or a boolean (1 / 0).          *)
(***************************************************************************)
EXTENDS Integers, Sequences, FiniteSets, TLC

\* ------------------------------------------------------------------------
\* Bounds of the model
\* ------------------------------------------------------------------------

\* spaces put before and after a generated cell
MaxPad == 1
\* data rows of the quality csv, and of the strata csv
MaxRows == 2
\* chunks standard input is delivered in
MaxChunks == 3

\* ------------------------------------------------------------------------
\* JavaScript values
\* ------------------------------------------------------------------------

Str(s) == [t |-> "string", s |-> s, n |-> 0]
Num(n) == [t |-> "number", s |-> <<>>, n |-> n]
JsTrue == [t |-> "boolean", s |-> <<>>, n |-> 1]
JsFalse == [t |-> "boolean", s |-> <<>>, n |-> 0]
JsNull == [t |-> "null", s |-> <<>>, n |-> 0]
Undefined == [t |-> "undefined", s |-> <<>>, n |-> 0]
\* Object.prototype.constructor and Object.prototype.__proto__, the two
\* inherited properties of a plain object whose names have no capital letter
JsFunction == [t |-> "function", s |-> <<>>, n |-> 0]
JsObject == [t |-> "object", s |-> <<>>, n |-> 0]

\* ToBoolean, as `!x` and `x || y` apply it
Truthy(v) ==
  CASE v.t = "string" -> v.s # <<>>
    [] v.t = "number" -> v.n # 0
    [] v.t = "boolean" -> v.n = 1
    [] v.t \in {"function", "object"} -> TRUE
    [] OTHER -> FALSE

\* The element of a singleton set.  Only({e(v) : v \in {x}}) is e(x) with x
\* evaluated once, where LET would leave it to be evaluated at each use.
Only(S) == CHOOSE x \in S : TRUE

\* the outcome of a call: a returned value or a thrown error
NoError == [type |-> "none", msg |-> "", column |-> 0, key |-> <<>>, paths |-> <<>>]
Ok(v) == [threw |-> FALSE, value |-> v, err |-> NoError]
Throw(e) == [threw |-> TRUE, value |-> Undefined, err |-> e]
\* `undefined.trim()`: TypeError: Cannot read property 'trim' of undefined
TrimOfUndefined ==
  [type |-> "TypeError", msg |-> "Cannot read property 'trim' of undefined",
   column |-> 0, key |-> <<>>, paths |-> <<>>]

\* ------------------------------------------------------------------------
\* String.prototype.trim, String.prototype.toLowerCase, Number(string)
\* ------------------------------------------------------------------------

WhiteSpace == {" ", "\t", "\n"}
UpperCaseLetters ==
  <<"A","B","C","D","E","F","G","H","I","J","K","L","M",
    "N","O","P","Q","R","S","T","U","V","W","X","Y","Z">>
LowerCaseLetters ==
  <<"a","b","c","d","e","f","g","h","i","j","k","l","m",
    "n","o","p","q","r","s","t","u","v","w","x","y","z">>
Digits == <<"0","1","2","3","4","5","6","7","8","9">>

RECURSIVE TrimStart(_)
TrimStart(s) ==
  IF s # <<>> /\ Head(s) \in WhiteSpace THEN TrimStart(Tail(s)) ELSE s

RECURSIVE TrimEnd(_)
TrimEnd(s) ==
  IF s # <<>> /\ s[Len(s)] \in WhiteSpace
  THEN TrimEnd(SubSeq(s, 1, Len(s) - 1))
  ELSE s

trim(s) == TrimEnd(TrimStart(s))

LowerChar(c) ==
  IF \E i \in 1..26 : UpperCaseLetters[i] = c
  THEN LowerCaseLetters[CHOOSE i \in 1..26 : UpperCaseLetters[i] = c]
  ELSE c

toLowerCase(s) == [i \in 1..Len(s) |-> LowerChar(s[i])]

IsDigit(c) == \E i \in 1..10 : Digits[i] = c
DigitValue(c) == (CHOOSE i \in 1..10 : Digits[i] = c) - 1

RECURSIVE DecimalValue(_)
DecimalValue(s) ==
  IF s = <<>> THEN 0
  ELSE 10 * DecimalValue(SubSeq(s, 1, Len(s) - 1)) + DigitValue(s[Len(s)])

AllDigits(s) == \A i \in 1..Len(s) : IsDigit(s[i])
AllZeros(s) == \A i \in 1..Len(s) : s[i] = "0"

\* Number(s) for the numeric literals the cells of the model can spell:
\* the empty string is 0, decimal digits with an optional fraction are their
\* value, anything else is NaN.  kind is "int", "frac" (not an integer) or
\* "nan".
NumberOf(s) ==
  LET t == trim(s)
      dots == {i \in 1..Len(t) : t[i] = "."}
  IN  IF t = <<>> THEN [kind |-> "int", n |-> 0]
      ELSE IF dots = {} THEN
        IF AllDigits(t) THEN [kind |-> "int", n |-> DecimalValue(t)]
        ELSE [kind |-> "nan", n |-> 0]
      ELSE IF Cardinality(dots) = 1 THEN
        LET d == CHOOSE i \in dots : TRUE
            whole == SubSeq(t, 1, d - 1)
            fraction == SubSeq(t, d + 1, Len(t))
        IN  IF Len(t) > 1 /\ AllDigits(whole) /\ AllDigits(fraction)
            THEN IF AllZeros(fraction)
                 THEN [kind |-> "int", n |-> DecimalValue(whole)]
                 ELSE [kind |-> "frac", n |-> DecimalValue(whole)]
            ELSE [kind |-> "nan", n |-> 0]
      ELSE [kind |-> "nan", n |-> 0]

\* ------------------------------------------------------------------------
\* constants.js (not among the sources): the valid performance years
\* ------------------------------------------------------------------------

validPerformanceYears == {2017, 2018, 2019}

\* ------------------------------------------------------------------------
\* cleanInput, mapInput
\* ------------------------------------------------------------------------

\* input.trim().toLowerCase(); throws when input is undefined
cleanInput(input) ==
  IF input.t = "undefined" THEN Throw(TrimOfUndefined)
  ELSE Ok(Str(toLowerCase(trim(input.s))))

\* mutant: the last rule returns the cell untrimmed
mapInputNoTrim(input) ==
  Only({ IF cleaned.threw THEN cleaned
         ELSE Only({
           IF cleanedInput = <<"t","r","u","e">> \/ cleanedInput = <<"x">>
             THEN Ok(JsTrue)
           ELSE IF cleanedInput = <<"f","a","l","s","e">> THEN Ok(JsFalse)
           ELSE IF cleanedInput = <<"n","u","l","l">> \/ cleanedInput = <<"n","/","a">>
             THEN Ok(JsNull)
           ELSE Only({
             IF number.kind = "int" /\ number.n \in validPerformanceYears
               THEN Ok(Num(number.n))
             ELSE Ok(Str(input.s)) : number \in {NumberOf(cleanedInput)} })
           : cleanedInput \in {cleaned.value.s} })
       : cleaned \in {cleanInput(input)} })

\* the rules in the order of the if / else if chain
mapInput(input) ==
  Only({ IF cleaned.threw THEN cleaned
         ELSE Only({
           IF cleanedInput = <<"t","r","u","e">> \/ cleanedInput = <<"x">>
             THEN Ok(JsTrue)
           ELSE IF cleanedInput = <<"f","a","l","s","e">> THEN Ok(JsFalse)
           ELSE IF cleanedInput = <<"n","u","l","l">> \/ cleanedInput = <<"n","/","a">>
             THEN Ok(JsNull)
           ELSE Only({
             IF number.kind = "int" /\ number.n \in validPerformanceYears
               THEN Ok(Num(number.n))
             ELSE Ok(Str(trim(input.s))) : number \in {NumberOf(cleanedInput)} })
           : cleanedInput \in {cleaned.value.s} })
       : cleaned \in {cleanInput(input)} })

\* ------------------------------------------------------------------------
\* State
\* ------------------------------------------------------------------------

VARIABLES
  \* a call of mapInput on one raw cell
  input, called, result,
  \* a call of getCheckedColumns(row, columnNumberToNameMap)
  flagRow, flagMap, flagCalled, checkedColumns,
  \* a run of import-quality-measures.js
  qualityFile, strataFile, qualityCsv, strataCsv, pc, nextRow, nextStratum,
  measures, error, writes, outputFile,
  \* a run of validate-data.js
  schemaType, stdin, delivered, json, vpc, validateArgs, stdout, uncaught

mapVars == <<input, called, result>>
flagVars == <<flagRow, flagMap, flagCalled, checkedColumns>>
importVars ==
  <<qualityFile, strataFile, qualityCsv, strataCsv, pc, nextRow, nextStratum,
    measures, error, writes, outputFile>>
validateVars ==
  <<schemaType, stdin, delivered, json, vpc, validateArgs, stdout, uncaught>>
vars == <<mapVars, flagVars, importVars, validateVars>>

\* the parts of the state a specification does not use
IdleMap == input = <<>> /\ called = FALSE /\ result = Ok(Undefined)
IdleFlags ==
  flagRow = <<>> /\ flagMap = <<>> /\ flagCalled = FALSE
  /\ checkedColumns = Ok(Undefined)
IdleImport ==
  /\ qualityFile = <<>> /\ strataFile = <<>> /\ qualityCsv = <<>>
  /\ strataCsv = <<>> /\ pc = "idle" /\ nextRow = 1 /\ nextStratum = 1
  /\ measures = <<>> /\ error = NoError /\ writes = 0 /\ outputFile = <<>>
IdleValidate ==
  /\ schemaType = "" /\ stdin = <<>> /\ delivered = 0 /\ json = <<>>
  /\ vpc = "idle"
  /\ validateArgs = <<>> /\ stdout = <<>> /\ uncaught = FALSE

\* ------------------------------------------------------------------------
\* Raw cells
\* ------------------------------------------------------------------------

Pad(n) == [i \in 1..n |-> " "]

UpperChar(c) ==
  IF \E i \in 1..26 : LowerCaseLetters[i] = c
  THEN UpperCaseLetters[CHOOSE i \in 1..26 : LowerCaseLetters[i] = c]
  ELSE c

\* a word as typed: lower case, upper case, or with a leading capital
CaseForms(w) ==
  { w,
    [i \in 1..Len(w) |-> UpperChar(w[i])],
    [i \in 1..Len(w) |-> IF i = 1 THEN UpperChar(w[i]) ELSE w[i]] }

BaseWords ==
  { <<>>, <<"t","r","u","e">>, <<"x">>, <<"f","a","l","s","e">>,
    <<"n","u","l","l">>, <<"n","/","a">>, <<"2","0","1","8">>,
    <<"2","0","1","6">>, <<"0","2","0","1","9">>, <<"2","0","1","7",".","0">>,
    <<"2","0","1","8",".","5">>, <<"t","r","u">>, <<"x","x">>,
    <<"n"," ","a">>, <<"m","1">>, <<"\t","x">>, <<"x","\n">> }

RawCells ==
  { Pad(l) \o c \o Pad(r) :
      l \in 0..MaxPad, r \in 0..MaxPad, c \in UNION {CaseForms(w) : w \in BaseWords} }

\* ------------------------------------------------------------------------
\* mapInput on every raw cell
\* ------------------------------------------------------------------------

InitMapInput ==
  /\ input \in RawCells /\ called = FALSE /\ result = Ok(Undefined)
  /\ IdleFlags /\ IdleImport /\ IdleValidate

CallMapInput ==
  /\ ~called
  /\ called' = TRUE
  /\ result' = mapInput(Str(input))
  /\ UNCHANGED <<input, flagVars, importVars, validateVars>>

NextMapInput == CallMapInput

SpecMapInput == InitMapInput /\ [][NextMapInput]_vars

\* s with its leading and trailing white space removed, stated without
\* recursion: the part of s between a white prefix and a white suffix that
\* neither starts nor ends with white space
TrimmedForms(s) ==
  { SubSeq(s, a + 1, Len(s) - b) :
      <<a, b>> \in { p \in (0..Len(s)) \X (0..Len(s)) :
          /\ p[1] + p[2] <= Len(s)
          /\ \A i \in 1..p[1] : s[i] \in WhiteSpace
          /\ \A i \in (Len(s) - p[2] + 1)..Len(s) : s[i] \in WhiteSpace
          /\ LET t == SubSeq(s, p[1] + 1, Len(s) - p[2])
             IN  t = <<>> \/ (t[1] \notin WhiteSpace /\ t[Len(t)] \notin WhiteSpace) } }

\* l is t in lower case
IsLowerCaseOf(l, t) ==
  /\ Len(l) = Len(t)
  /\ \A i \in 1..Len(t) :
       \/ \E k \in 1..26 : t[i] = UpperCaseLetters[k] /\ l[i] = LowerCaseLetters[k]
       \/ (\A k \in 1..26 : t[i] # UpperCaseLetters[k]) /\ l[i] = t[i]

\* what the rules give for the trimmed cell t and its lower-case form l
RuleValue(t, l) ==
  IF l \in {<<"t","r","u","e">>, <<"x">>} THEN JsTrue
  ELSE IF l = <<"f","a","l","s","e">> THEN JsFalse
  ELSE IF l \in {<<"n","u","l","l">>, <<"n","/","a">>} THEN JsNull
  ELSE IF NumberOf(t).kind = "int" /\ NumberOf(t).n \in validPerformanceYears
    THEN Num(NumberOf(t).n)
  ELSE Str(t)

\* C1: mapInput(s) never raises and is decided by the trimmed, lower-cased
\* form of s, the rules applied in order: 'true' or 'x' gives true, 'false'
\* gives false, 'null' or 'n/a' gives null, a valid performance year gives
\* that number, anything else gives s trimmed with its case kept; the empty
\* string gives the empty string.
C1_MapInputRules ==
  called =>
    /\ ~result.threw
    /\ \E t \in TrimmedForms(input) :
         \E l \in {toLowerCase(t)} :
           /\ IsLowerCaseOf(l, t)
           /\ result.value = RuleValue(t, l)
    /\ (input = <<>> => result.value = Str(<<>>))

\* a padded, capitalised cell went through the last rule: trimmed, case kept
C1_Witness ==
  /\ called
  /\ input = <<" ", "T", "r", "u", " ">>
  /\ result.value = Str(<<"T", "r", "u">>)

\* ------------------------------------------------------------------------
\* SUBMISSION_METHODS, MEASURE_SETS, getCheckedColumns
\* ------------------------------------------------------------------------

\* csv column number -> label, in the order the source declares the entries
SubmissionMethodsLiteral ==
  <<[column |-> 10, label |-> "claims"],
    [column |-> 11, label |-> "certifiedSurveyVendor"],
    [column |-> 12, label |-> "electronicHealthRecord"],
    [column |-> 13, label |-> "cmsWebInterface"],
    [column |-> 14, label |-> "administrativeClaims"],
    [column |-> 15, label |-> "registry"]>>

MeasureSetsLiteral ==
  <<
    [column |-> 16, label |-> "allergyImmunology"],
    [column |-> 17, label |-> "anesthesiology"],
    [column |-> 18, label |-> "cardiology"],
    [column |-> 19, label |-> "dermatology"],
    [column |-> 20, label |-> "diagnosticRadiology"],
    [column |-> 21, label |-> "electrophysiologyCardiacSpecialist"],
    [column |-> 22, label |-> "emergencyMedicine"],
    [column |-> 23, label |-> "gastroenterology"],
    [column |-> 24, label |-> "generalOncology"],
    [column |-> 25, label |-> "generalPracticeFamilyMedicine"],
    [column |-> 26, label |-> "generalSurgery"],
    [column |-> 27, label |-> "hospitalists"],
    [column |-> 28, label |-> "internalMedicine"],
    [column |-> 29, label |-> "interventionalRadiology"],
    [column |-> 30, label |-> "mentalBehavioralHealth"],
    [column |-> 31, label |-> "neurology"],
    [column |-> 32, label |-> "obstetricsGynecology"],
    [column |-> 33, label |-> "ophthalmology"],
    [column |-> 34, label |-> "orthopedicSurgery"],
    [column |-> 35, label |-> "otolaryngology"],
    [column |-> 36, label |-> "pathology"],
    [column |-> 37, label |-> "pediatrics"],
    [column |-> 38, label |-> "physicalMedicine"],
    [column |-> 39, label |-> "plasticSurgery"],
    [column |-> 40, label |-> "preventiveMedicine"],
    [column |-> 41, label |-> "radiationOncology"],
    [column |-> 42, label |-> "rheumatology"],
    [column |-> 43, label |-> "thoracicSurgery"],
    [column |-> 44, label |-> "urology"],
    [column |-> 45, label |-> "vascularSurgery"]>>

\* The keys of an object whose keys are integers are enumerated in ascending
\* numeric order, whatever the order they were written in: position k of the
\* enumeration is the entry with exactly k - 1 smaller columns.
ObjectLiteral(literal) ==
  [k \in 1..Len(literal) |->
     literal[CHOOSE i \in 1..Len(literal) :
       Cardinality({j \in 1..Len(literal) : literal[j].column < literal[i].column})
         = k - 1]]

\* the two objects, as _.each enumerates them
SUBMISSION_METHODS == ObjectLiteral(SubmissionMethodsLiteral)
MEASURE_SETS == ObjectLiteral(MeasureSetsLiteral)

\* row[i] of a JavaScript array of strings: undefined past its end.
\* Rows are sequences of cells; JavaScript index i is position i + 1.
Cell(row, i) == IF i + 1 \in 1..Len(row) THEN Str(row[i + 1]) ELSE Undefined

\* the callback of _.each(columnNumberToNameMap, ...) on one entry: whether
\* it throws, and whether it pushes the entry's label
ThrowsOn(row, entry) == mapInput(Cell(row, entry.column)).threw
Pushes(row, entry) == mapInput(Cell(row, entry.column)).value = JsTrue
PushesTruthy(row, entry) == Truthy(mapInput(Cell(row, entry.column)).value)

\* mutant: `if (mapInput(row[key]))` in place of `=== true`
getCheckedColumnsTruthy(row, columnNumberToNameMap) ==
  IF \E k \in 1..Len(columnNumberToNameMap) : ThrowsOn(row, columnNumberToNameMap[k])
  THEN Throw(TrimOfUndefined)
  ELSE Only({ Ok([i \in 1..Len(pushed) |-> pushed[i].label]) :
         pushed \in {SelectSeq(columnNumberToNameMap,
                               LAMBDA entry : PushesTruthy(row, entry))} })

\* _.each visits the entries in enumeration order; the first throw of the
\* callback ends the call (mapInput throws only the TypeError of trim on
\* undefined), otherwise the labels pushed are returned in visiting order.
\* The outcome's value is the list of labels (a sequence of strings).
getCheckedColumns(row, columnNumberToNameMap) ==
  IF \E k \in 1..Len(columnNumberToNameMap) : ThrowsOn(row, columnNumberToNameMap[k])
  THEN Throw(mapInput(Cell(row,
         columnNumberToNameMap[
           CHOOSE k \in 1..Len(columnNumberToNameMap) :
             /\ ThrowsOn(row, columnNumberToNameMap[k])
             /\ \A j \in 1..(k - 1) : ~ThrowsOn(row, columnNumberToNameMap[j])
         ].column)).err)
  ELSE Only({ Ok([i \in 1..Len(pushed) |-> pushed[i].label]) :
         pushed \in {SelectSeq(columnNumberToNameMap,
                               LAMBDA entry : Pushes(row, entry))} })

\* ------------------------------------------------------------------------
\* getCheckedColumns on rows of every length
\* ------------------------------------------------------------------------

\* cells of flag columns, row lengths and the columns that are varied
FlagCells ==
  { <<>>, <<"x">>, <<"X", " ">>, <<"T","R","U","E">>, <<"f","a","l","s","e">>,
    <<"y","e","s">> }
FlagRowLengths == {0, 10, 13, 16, 31, 46, 61}
FlagColumnsTried == {10, 12, 15, 16, 30, 45}

InitFlags ==
  /\ flagMap \in {SUBMISSION_METHODS, MEASURE_SETS}
  /\ \E len \in FlagRowLengths, fill \in {<<>>, <<"x">>, <<"n","o">>},
        c1 \in FlagColumnsTried, c2 \in FlagColumnsTried,
        v1 \in FlagCells, v2 \in FlagCells :
       flagRow = [i \in 1..len |->
                    IF i - 1 = c1 THEN v1
                    ELSE IF i - 1 = c2 THEN v2
                    ELSE IF i - 1 = 0 THEN <<"x">> ELSE fill]
  /\ flagCalled = FALSE /\ checkedColumns = Ok(Undefined)
  /\ IdleMap /\ IdleImport /\ IdleValidate

CallGetCheckedColumns ==
  /\ ~flagCalled
  /\ flagCalled' = TRUE
  /\ checkedColumns' = getCheckedColumns(flagRow, flagMap)
  /\ UNCHANGED <<flagRow, flagMap, mapVars, importVars, validateVars>>

NextFlags == CallGetCheckedColumns

SpecFlags == InitFlags /\ [][NextFlags]_vars

\* the labels of flagMap whose column is a cell of the row, and those whose
\* cell normalizes to boolean true
PresentColumns(row, map) ==
  {k \in 1..Len(map) : Cell(row, map[k].column) # Undefined}
TrueColumns(row, map) ==
  {k \in PresentColumns(row, map) :
     LET l == toLowerCase(trim(row[map[k].column + 1]))
     IN  l \in {<<"t","r","u","e">>, <<"x">>}}

\* the source's declaration of an object
Declaration(map) ==
  IF map = SUBMISSION_METHODS THEN SubmissionMethodsLiteral ELSE MeasureSetsLiteral

\* the position of a label in the declaration
DeclaredAt(map, label) ==
  CHOOSE k \in 1..Len(Declaration(map)) : Declaration(map)[k].label = label

\* list holds exactly the labels of the entries in `entries`, each once, in
\* declaration order
IsLabelsOf(list, map, entries) ==
  /\ Len(list) = Cardinality(entries)
  /\ {list[i] : i \in 1..Len(list)} = {map[k].label : k \in entries}
  /\ \A i, j \in 1..Len(list) :
       i < j => DeclaredAt(map, list[i]) < DeclaredAt(map, list[j])

C6_CheckedColumns ==
  (flagCalled /\ PresentColumns(flagRow, flagMap) = 1..Len(flagMap)) =>
    /\ ~checkedColumns.threw
    /\ IsLabelsOf(checkedColumns.value, flagMap, TrueColumns(flagRow, flagMap))
    /\ (TrueColumns(flagRow, flagMap) = {} => checkedColumns.value = <<>>)

\* four true cells in declaration order, beside a cell that is false and one
\* that is not empty but not true
C6_Witness ==
  /\ flagCalled
  /\ flagMap = SUBMISSION_METHODS
  /\ Len(flagRow) = 16
  /\ flagRow[11] = <<"y","e","s">>
  /\ flagRow[13] = <<"f","a","l","s","e">>
  /\ checkedColumns.value =
       <<"certifiedSurveyVendor", "cmsWebInterface", "administrativeClaims",
         "registry">>

\* ------------------------------------------------------------------------
\* CONFIG
\* ------------------------------------------------------------------------

\* CONFIG.sourced_fields.measureType.mappings, in declaration order
measureTypeMappings ==
  <<
    [key |-> <<"p","r","o","c","e","s","s">>,
     value |-> Str(<<"p","r","o","c","e","s","s">>)],
    [key |-> <<"o","u","t","c","o","m","e">>,
     value |-> Str(<<"o","u","t","c","o","m","e">>)],
    [key |-> <<"p","a","t","i","e","n","t"," ","e","n","g","a","g","e","m","e","n","t","/","e","x","p","e","r","i","e","n","c","e">>,
     value |-> Str(<<"p","a","t","i","e","n","t","E","n","g","a","g","e","m","e","n","t","E","x","p","e","r","i","e","n","c","e">>)],
    [key |-> <<"e","f","f","i","c","i","e","n","c","y">>,
     value |-> Str(<<"e","f","f","i","c","i","e","n","c","y">>)],
    [key |-> <<"i","n","t","e","r","m","e","d","i","a","t","e"," ","o","u","t","c","o","m","e">>,
     value |-> Str(<<"i","n","t","e","r","m","e","d","i","a","t","e","O","u","t","c","o","m","e">>)],
    [key |-> <<"s","t","r","u","c","t","u","r","e">>,
     value |-> Str(<<"s","t","r","u","c","t","u","r","e">>)],
    [key |-> <<"p","a","t","i","e","n","t"," ","r","e","p","o","r","t","e","d"," ","o","u","t","c","o","m","e">>,
     value |-> Str(<<"o","u","t","c","o","m","e">>)],
    [key |-> <<"c","o","m","p","o","s","i","t","e">>,
     value |-> Str(<<"o","u","t","c","o","m","e">>)],
    [key |-> <<"c","o","s","t","/","r","e","s","o","u","r","c","e"," ","u","s","e">>,
     value |-> Str(<<"e","f","f","i","c","i","e","n","c","y">>)],
    [key |-> <<"c","l","i","n","i","c","a","l"," ","p","r","o","c","e","s","s"," ","e","f","f","e","c","t","i","v","e","n","e","s","s">>,
     value |-> Str(<<"p","r","o","c","e","s","s">>)]>>

\* CONFIG.sourced_fields in declaration order, the order Object.entries gives.
\* direct: the entry is a bare column number.  An object entry has an index,
\* mappings (<<>> when it has none) and a default (undefined when it has none).
sourced_fields ==
  <<
    [key |-> "title", direct |-> TRUE, index |-> 1, mappings |-> <<>>, default |-> Undefined],
    [key |-> "eMeasureId", direct |-> TRUE, index |-> 2, mappings |-> <<>>, default |-> Undefined],
    [key |-> "nqfEMeasureId", direct |-> TRUE, index |-> 3, mappings |-> <<>>, default |-> Undefined],
    [key |-> "nqfId", direct |-> TRUE, index |-> 4, mappings |-> <<>>, default |-> Undefined],
    [key |-> "measureId", direct |-> TRUE, index |-> 5, mappings |-> <<>>, default |-> Undefined],
    [key |-> "description", direct |-> TRUE, index |-> 6, mappings |-> <<>>, default |-> Undefined],
    [key |-> "nationalQualityStrategyDomain", direct |-> TRUE, index |-> 7, mappings |-> <<>>, default |-> Undefined],
    [key |-> "measureType", direct |-> FALSE, index |-> 8, mappings |-> measureTypeMappings, default |-> Undefined],
    [key |-> "primarySteward", direct |-> TRUE, index |-> 9, mappings |-> <<>>, default |-> Undefined],
    [key |-> "metricType", direct |-> TRUE, index |-> 51, mappings |-> <<>>, default |-> Undefined],
    [key |-> "firstPerformanceYear", direct |-> FALSE, index |-> 52, mappings |-> <<>>, default |-> Num(2017)],
    [key |-> "lastPerformanceYear", direct |-> FALSE, index |-> 53, mappings |-> <<>>, default |-> JsNull],
    [key |-> "isHighPriority", direct |-> FALSE, index |-> 55, mappings |-> <<>>, default |-> JsFalse],
    [key |-> "isInverse", direct |-> FALSE, index |-> 56, mappings |-> <<>>, default |-> JsFalse],
    [key |-> "overallAlgorithm", direct |-> TRUE, index |-> 60, mappings |-> <<>>, default |-> Undefined]>>

\* CONFIG.constant_fields in declaration order
constant_fields ==
  <<[key |-> "category", value |-> Str(<<"q","u","a","l","i","t","y">>)],
    [key |-> "isRegistryMeasure", value |-> JsFalse],
    [key |-> "isRiskAdjusted", value |-> JsFalse]>>

\* table[name] on a plain object: an own property, else a property inherited
\* from Object.prototype, else undefined.  Of the inherited names only
\* constructor and __proto__ are spelled without a capital letter, the only
\* ones a lower-cased cell can spell.
Property(table, name) ==
  IF \E k \in 1..Len(table) : table[k].key = name
  THEN table[CHOOSE k \in 1..Len(table) : table[k].key = name].value
  ELSE IF name = <<"c","o","n","s","t","r","u","c","t","o","r">> THEN JsFunction
  ELSE IF name = <<"_","_","p","r","o","t","o","_","_">> THEN JsObject
  ELSE Undefined

\* ------------------------------------------------------------------------
\* convertQualityStrataCsvsToMeasures: one row to one measure
\* ------------------------------------------------------------------------

\* process.argv[2] and process.argv[3]
qualityMeasuresPath == "quality-measures.csv"
qualityStrataPath == "quality-strata.csv"

\* Error('Column ' + columnObject + ' does not exist in source data')
ColumnDoesNotExist(column) ==
  [type |-> "Error", msg |-> "Column <column> does not exist in source data",
   column |-> column, key |-> <<>>, paths |-> <<>>]

\* TypeError('Measure id: ' + measureId + ' does not exist in ' +
\*   qualityMeasuresPath + ' but does exist in ' + qualityStrataPath)
MeasureDoesNotExist(measureId) ==
  [type |-> "TypeError",
   msg |-> "Measure id: <key> does not exist in <paths[1]> but does exist in <paths[2]>",
   column |-> 0, key |-> measureId,
   paths |-> <<qualityMeasuresPath, qualityStrataPath>>]

\* the fields of a measure are a function from field names to values
NoFields == [x \in {} |-> Undefined]
SetField(fields, key, value) ==
  [x \in DOMAIN fields \cup {key} |-> IF x = key THEN value ELSE fields[x]]

\* a conversion in progress: the fields so far, or a throw
Fields(fields) == [threw |-> FALSE, value |-> fields, err |-> NoError]

\* mutant: a direct field is set whatever the cell, the empty string too
DirectFieldAlways(row, columnObject, fields) ==
  Only({ IF cell = Undefined THEN Throw(ColumnDoesNotExist(columnObject.index))
         ELSE Fields(SetField(fields, columnObject.key, mapInput(cell).value))
       : cell \in {Cell(row, columnObject.index)} })

\* typeof columnObject === 'number': the cell must exist; an empty cell
\* leaves the field out; any other cell is normalized
DirectField(row, columnObject, fields) ==
  Only({ IF cell = Undefined THEN Throw(ColumnDoesNotExist(columnObject.index))
         ELSE IF cell # Str(<<>>)
           THEN Fields(SetField(fields, columnObject.key, mapInput(cell).value))
         ELSE Fields(fields)
       : cell \in {Cell(row, columnObject.index)} })

\* an object entry: the table entry of the cleaned cell when the entry has
\* mappings (cleanInput throws on an absent cell), mapInput of the cell when
\* it has none; then `value || columnObject['default']`
ObjectField(row, columnObject, fields) ==
  Only({
    IF candidate.threw THEN Throw(candidate.err)
    ELSE Fields(SetField(fields, columnObject.key,
                  IF Truthy(candidate.value) THEN candidate.value
                  ELSE columnObject.default))
    : candidate \in {
        IF columnObject.mappings # <<>>
        THEN Only({ IF cleaned.threw THEN cleaned
                    ELSE Ok(Property(columnObject.mappings, cleaned.value.s))
                  : cleaned \in {cleanInput(Cell(row, columnObject.index))} })
        ELSE mapInput(Cell(row, columnObject.index)) } })

\* Object.entries(sourcedFields).forEach from entry k on; the first throw ends it
RECURSIVE SourcedFields(_, _, _)
SourcedFields(row, k, fields) ==
  IF k > Len(sourced_fields) THEN Fields(fields)
  ELSE Only({ IF set.threw THEN set ELSE SourcedFields(row, k + 1, set.value)
            : set \in {IF sourced_fields[k].direct
                       THEN DirectField(row, sourced_fields[k], fields)
                       ELSE ObjectField(row, sourced_fields[k], fields)} })

\* Object.entries(constantFields).forEach from entry k on
RECURSIVE ConstantFields(_, _)
ConstantFields(k, fields) ==
  IF k > Len(constant_fields) THEN fields
  ELSE Only({ ConstantFields(k + 1, set)
            : set \in {SetField(fields, constant_fields[k].key,
                                constant_fields[k].value)} })

\* the callback of qualityCsvRows.map: the measure of one row, or a throw.
\* strata is the measure's strata list once hasStrata is set.
RowToMeasure(row) ==
  Only({
    IF sourced.threw THEN Throw(sourced.err)
    ELSE Only({
      IF submissionMethods.threw THEN Throw(submissionMethods.err)
      ELSE Only({
        IF measureSets.threw THEN Throw(measureSets.err)
        ELSE [threw |-> FALSE,
              value |-> [fields |-> ConstantFields(1, sourced.value),
                         submissionMethods |-> submissionMethods.value,
                         measureSets |-> measureSets.value,
                         hasStrata |-> FALSE,
                         strata |-> <<>>],
              err |-> NoError]
        : measureSets \in {getCheckedColumns(row, MEASURE_SETS)} })
      : submissionMethods \in {getCheckedColumns(row, SUBMISSION_METHODS)} })
    : sourced \in {SourcedFields(row, 1, NoFields)} })

\* ------------------------------------------------------------------------
\* addMultiPerformanceRateStrata: one strata row
\* ------------------------------------------------------------------------

\* _.find(measures, {'measureId': measureId}): the index of the first measure
\* whose measureId is that string (strict equality), 0 when there is none
Matches(measure, measureId) ==
  /\ "measureId" \in DOMAIN measure.fields
  /\ measure.fields["measureId"] = Str(measureId)

FindLast(ms, measureId) ==
  IF \E i \in 1..Len(ms) : Matches(ms[i], measureId)
  THEN CHOOSE i \in 1..Len(ms) :
         /\ Matches(ms[i], measureId)
         /\ \A j \in (i + 1)..Len(ms) : ~Matches(ms[j], measureId)
  ELSE 0

Find(ms, measureId) ==
  IF \E i \in 1..Len(ms) : Matches(ms[i], measureId)
  THEN CHOOSE i \in 1..Len(ms) :
         /\ Matches(ms[i], measureId)
         /\ \A j \in 1..(i - 1) : ~Matches(ms[j], measureId)
  ELSE 0

\* the callback of _.each(strataRows, ...): the measures after the row, or a
\* throw
AddStratum(ms, row) ==
  IF ~Truthy(Cell(row, 0)) THEN [threw |-> FALSE, value |-> ms, err |-> NoError]
  ELSE IF Cell(row, 1) = Undefined THEN Throw(TrimOfUndefined)
  ELSE IF Cell(row, 3) = Undefined THEN Throw(TrimOfUndefined)
  ELSE Only({
    IF found = 0 THEN Throw(MeasureDoesNotExist(trim(Cell(row, 0).s)))
    ELSE [threw |-> FALSE,
          value |-> [ms EXCEPT ![found] =
             [@ EXCEPT !.hasStrata = TRUE,
                       !.strata = Append(@, [name |-> trim(Cell(row, 1).s),
                                             description |-> trim(Cell(row, 3).s)])]],
          err |-> NoError]
    : found \in {Find(ms, trim(Cell(row, 0).s))} })

\* ------------------------------------------------------------------------
\* getCsv, JSON.stringify
\* ------------------------------------------------------------------------

\* the parsed rows of a file less its first headerRows rows (shift on an
\* empty array does nothing)
getCsv(file, headerRows) ==
  IF Len(file) <= headerRows THEN <<>> ELSE SubSeq(file, headerRows + 1, Len(file))

\* JSON.stringify leaves out the properties whose value is undefined or a
\* function; the text is modelled by the structure it spells
StringifyMeasure(measure) ==
  [measure EXCEPT !.fields =
     [x \in {y \in DOMAIN measure.fields :
               measure.fields[y].t \notin {"undefined", "function"}}
        |-> measure.fields[x]]]
JSONStringify(ms) == [i \in 1..Len(ms) |-> StringifyMeasure(ms[i])]

\* ------------------------------------------------------------------------
\* importQualityMeasures, step by step
\* ------------------------------------------------------------------------

\* const qualityCsv = getCsv(qualityMeasuresPath, 2);
\* const strataCsv = getCsv(qualityStrataPath, 2);
ReadCsvs ==
  /\ pc = "start"
  /\ qualityCsv' = getCsv(qualityFile, 2)
  /\ strataCsv' = getCsv(strataFile, 2)
  /\ pc' = "running"
  /\ UNCHANGED <<qualityFile, strataFile, nextRow, nextStratum, measures, error,
                 writes, outputFile, mapVars, flagVars, validateVars>>

\* one call of the callback of qualityCsvRows.map; a throw is not caught
\* anywhere and ends the process
ConvertRow ==
  /\ pc = "running"
  /\ nextRow <= Len(qualityCsv)
  /\ \E measure \in {RowToMeasure(qualityCsv[nextRow])} :
         IF measure.threw
         THEN /\ error' = measure.err
              /\ pc' = "failed"
              /\ UNCHANGED <<measures, nextRow>>
         ELSE /\ measures' = Append(measures, measure.value)
              /\ nextRow' = nextRow + 1
              /\ UNCHANGED <<error, pc>>
  /\ UNCHANGED <<qualityFile, strataFile, qualityCsv, strataCsv, nextStratum,
                 writes, outputFile, mapVars, flagVars, validateVars>>

\* one call of the callback of _.each(strataRows, ...), once map has returned
AddStrataRow ==
  /\ pc = "running"
  /\ nextRow > Len(qualityCsv)
  /\ nextStratum <= Len(strataCsv)
  /\ \E merged \in {AddStratum(measures, strataCsv[nextStratum])} :
         IF merged.threw
         THEN /\ error' = merged.err
              /\ pc' = "failed"
              /\ UNCHANGED <<measures, nextStratum>>
         ELSE /\ measures' = merged.value
              /\ nextStratum' = nextStratum + 1
              /\ UNCHANGED <<error, pc>>
  /\ UNCHANGED <<qualityFile, strataFile, qualityCsv, strataCsv, nextRow,
                 writes, outputFile, mapVars, flagVars, validateVars>>

\* mutant: the file is written as soon as the rows are converted
WriteOutputBeforeStrata ==
  /\ pc = "running"
  /\ nextRow > Len(qualityCsv)
  /\ writes = 0
  /\ outputFile' = JSONStringify(measures)
  /\ writes' = writes + 1
  /\ pc' = IF nextStratum > Len(strataCsv) THEN "done" ELSE pc
  /\ UNCHANGED <<qualityFile, strataFile, qualityCsv, strataCsv, nextRow,
                 nextStratum, measures, error, mapVars, flagVars, validateVars>>

\* JSON.stringify(qualityMeasures, null, 2) and fs.writeFileSync, once
\* convertQualityStrataCsvsToMeasures has returned
WriteOutput ==
  /\ pc = "running"
  /\ nextRow > Len(qualityCsv)
  /\ nextStratum > Len(strataCsv)
  /\ outputFile' = JSONStringify(measures)
  /\ writes' = writes + 1
  /\ pc' = "done"
  /\ UNCHANGED <<qualityFile, strataFile, qualityCsv, strataCsv, nextRow,
                 nextStratum, measures, error, mapVars, flagVars, validateVars>>

Next == ReadCsvs \/ ConvertRow \/ AddStrataRow \/ WriteOutput

\* ------------------------------------------------------------------------
\* Input files
\* ------------------------------------------------------------------------

\* the two header rows of either file
HeaderRow == <<<<>>, <<"T","i","t","l","e">>>>

\* all sequences of at most n elements of S
SeqUpTo(S, n) == UNION {[1..k -> S] : k \in 0..n}

\* the column numbers of the direct entries but measureId, and of the
\* entries with a default
DirectColumns == {1, 2, 3, 4, 6, 7, 9, 51, 60}
DefaultColumns == {52, 53, 55, 56}

\* a quality row of len cells: id in the measureId column, type in the
\* measureType column, d in the other direct columns, y in the columns with
\* a default; columns 11 and 16 are checked, the rest is empty
QualityRow(len, id, type, d, y) ==
  [i \in 1..len |->
     IF i - 1 = 5 THEN id
     ELSE IF i - 1 = 8 THEN type
     ELSE IF i - 1 \in DirectColumns THEN d
     ELSE IF i - 1 \in DefaultColumns THEN y
     ELSE IF i - 1 \in {11, 16} THEN <<"x">>
     ELSE <<>>]

M1 == <<"M","1">>
M2 == <<"M","2">>
M9 == <<"M","9">>
Process == <<"P","r","o","c","e","s","s">>

\* strata rows: resolved, resolved with padding, unresolved, blank, empty,
\* and one with no name and description cell
StrataRows ==
  { <<M1, <<"S","t","r","a","t","u","m"," ","1">>, <<"x">>, <<"d","e","s","c">>>>,
    <<<<" ">> \o M1 \o <<" ">>, <<" ","S","2"," ">>, <<>>, <<"d","2"," ">>, <<"e">>>>,
    <<M9, <<"s">>, <<>>, <<"d">>>>,
    <<<<>>, <<"s">>, <<>>, <<"d">>>>,
    <<>>,
    <<M1>> }

\* ------------------------------------------------------------------------
\* Spec: runs over several rows
\* ------------------------------------------------------------------------

\* quality rows: M1, M2 (padded id), a second M1, a row of 8 cells
QualityRows ==
  { QualityRow(61, M1, Process, <<"A">>, <<"2","0","1","8">>),
    QualityRow(62, <<" ">> \o M2, <<"o","u","t","c","o","m","e">>, <<>>, <<"x">>),
    QualityRow(61, M1, <<"o","t","h","e","r">>, <<"B">>, <<>>),
    QualityRow(8, M1, <<>>, <<"A">>, <<>>) }

Init ==
  /\ \E q \in SeqUpTo(QualityRows, MaxRows), st \in SeqUpTo(StrataRows, MaxRows) :
       /\ qualityFile = <<HeaderRow, HeaderRow>> \o q
       /\ strataFile = <<HeaderRow, HeaderRow>> \o st
  /\ qualityCsv = <<>> /\ strataCsv = <<>> /\ pc = "start"
  /\ nextRow = 1 /\ nextStratum = 1 /\ measures = <<>> /\ error = NoError
  /\ writes = 0 /\ outputFile = <<>>
  /\ IdleMap /\ IdleFlags /\ IdleValidate

Spec == Init /\ [][Next]_vars

\* ------------------------------------------------------------------------
\* SpecRow: runs over one row of every shape
\* ------------------------------------------------------------------------

RowLengths == {0, 5, 8, 9, 52, 57, 60, 61}
IdCells == {<<>>, M1}
RowStrata == {<<M1, <<" ", "s">>, <<>>, <<"d">>>>, <<M9, <<"s">>, <<>>, <<"d">>>>}
TypeCells ==
  { <<>>, Process, <<" ","O","U","T","C","O","M","E"," ">>, <<"C","o","s","t","/","R","e","s","o","u","r","c","e"," ","U","s","e">>,
    <<"o","t","h","e","r">>, <<"_","_","p","r","o","t","o","_","_">> }
DirectCells ==
  { <<>>, <<" ">>, <<"x">>, <<" ","T","r","u","e">>, <<"N","/","A">>,
    <<"2","0","1","8">>, <<"A","b","c"," ">> }
DefaultCells ==
  { <<>>, <<" ">>, <<"X">>, <<"f","a","l","s","e">>, <<"n","/","a">>,
    <<"2","0","1","9">>, <<"2","0","1","6">> }

InitRow ==
  /\ \E len \in RowLengths, id \in IdCells, type \in TypeCells,
        d \in DirectCells, y \in DefaultCells, st \in SeqUpTo(RowStrata, 1) :
       /\ qualityFile = <<HeaderRow, HeaderRow, QualityRow(len, id, type, d, y)>>
       /\ strataFile = <<HeaderRow, HeaderRow>> \o st
  /\ qualityCsv = <<>> /\ strataCsv = <<>> /\ pc = "start"
  /\ nextRow = 1 /\ nextStratum = 1 /\ measures = <<>> /\ error = NoError
  /\ writes = 0 /\ outputFile = <<>>
  /\ IdleMap /\ IdleFlags /\ IdleValidate

SpecRow == InitRow /\ [][Next]_vars

\* ------------------------------------------------------------------------
\* Claims about the importer
\* ------------------------------------------------------------------------

DirectEntries == {k \in 1..Len(sourced_fields) : sourced_fields[k].direct}
ObjectEntries == {k \in 1..Len(sourced_fields) : ~sourced_fields[k].direct}

\* the direct entries whose column is absent from a row
AbsentDirect(row) ==
  {k \in DirectEntries : Cell(row, sourced_fields[k].index) = Undefined}

\* the run is over: the file is written or an error ended the process
Ended == pc \in {"done", "failed"}
\* map has returned: every quality row has its measure
Converted == pc \in {"running", "done", "failed"} /\ nextRow > Len(qualityCsv)

\* C2: when a direct-index entry's column is absent from a primary row, the
\* conversion raises an error whose message names the column index of such
\* an entry of the row it stopped at, and no record collection is returned
\* (nothing is merged or written).
C2_MissingColumnNamed ==
  (Ended /\ \E i \in 1..Len(qualityCsv) : AbsentDirect(qualityCsv[i]) # {}) =>
    /\ pc = "failed"
    /\ nextRow <= Len(qualityCsv)
    /\ writes = 0
    /\ error.type = "Error"
    /\ error.column \in
         {sourced_fields[k].index : k \in AbsentDirect(qualityCsv[nextRow])}

\* a strata row with a non-empty foreign key that no built record has
NonBlank(row) == Truthy(Cell(row, 0))
Resolves(row) == \E i \in 1..Len(measures) : Matches(measures[i], trim(row[1]))
UnresolvedRows ==
  {j \in 1..Len(strataCsv) : NonBlank(strataCsv[j]) /\ ~Resolves(strataCsv[j])}

\* C3: when a strata row has a non-empty foreign key that is the measureId of
\* no built record, the merger raises an error that names the key and both
\* paths, the build is aborted, and the merger never returns normally past
\* such a row.
C3_UnresolvedKeyNamed ==
  (Converted /\ Ended /\ UnresolvedRows # {}) =>
    /\ pc = "failed"
    /\ writes = 0
    /\ nextStratum \in UnresolvedRows
    /\ \A j \in UnresolvedRows : nextStratum <= j
    /\ error = [type |-> "TypeError",
                msg |-> "Measure id: <key> does not exist in <paths[1]> but does exist in <paths[2]>",
                column |-> 0,
                key |-> trim(strataCsv[nextStratum][1]),
                paths |-> <<qualityMeasuresPath, qualityStrataPath>>]

\* C4: the output file is written at most once, and only after every
\* primary row is converted and every strata row merged without error; when
\* an error is raised the run ends with no write.
C4_WriteOnlyAfterSuccess ==
  /\ writes <= 1
  /\ writes = 1 =>
       /\ pc = "done"
       /\ error = NoError
       /\ Len(measures) = Len(qualityCsv)
       /\ qualityCsv = SubSeq(qualityFile, 3, Len(qualityFile))
       /\ nextStratum = Len(strataCsv) + 1
       /\ strataCsv = SubSeq(strataFile, 3, Len(strataFile))
  /\ pc = "done" => writes = 1
  /\ (pc = "failed" \/ error # NoError) =>
       /\ writes = 0 /\ outputFile = <<>> /\ pc = "failed" /\ error # NoError

\* two rows converted, two strata rows merged, then the one write
C4_Witness ==
  /\ pc = "done" /\ writes = 1
  /\ Len(qualityCsv) = 2 /\ Len(strataCsv) = 2
  /\ \E i \in 1..2 : measures[i].hasStrata

\* C7: for a direct-index entry, an empty cell leaves the record without the
\* field's key, and a present, non-empty cell sets the field to
\* mapInput(cell).
C7_DirectFields ==
  \A i \in 1..Len(measures) : \A k \in DirectEntries :
    LET cell == Cell(qualityCsv[i], sourced_fields[k].index)
        key == sourced_fields[k].key
    IN  /\ cell = Str(<<>>) => key \notin DOMAIN measures[i].fields
        /\ (cell # Undefined /\ cell # Str(<<>>)) =>
             /\ key \in DOMAIN measures[i].fields
             /\ measures[i].fields[key] = mapInput(cell).value

\* a built record without title (empty cell) and with measureId
C7_Witness ==
  /\ Len(measures) = 1
  /\ Len(qualityCsv) >= 1
  /\ Len(qualityCsv[1]) >= 2
  /\ qualityCsv[1][2] = <<>>
  /\ "title" \notin DOMAIN measures[1].fields
  /\ "measureId" \in DOMAIN measures[1].fields
  /\ measures[1].fields["measureId"] = Str(M1)

\* the table's entry for a cell: the value declared for the trimmed,
\* lower-cased cell when it is a key of the table, nothing otherwise
TableEntry(table, cell) ==
  LET name == toLowerCase(trim(cell.s))
  IN  IF \E k \in 1..Len(table) : table[k].key = name
      THEN table[CHOOSE k \in 1..Len(table) : table[k].key = name].value
      ELSE Undefined

\* C9: for an object-form entry the field is the candidate when the
\* candidate is truthy and the entry's default otherwise, the candidate being
\* the table entry for the trimmed, lower-cased cell when the entry has a
\* table and mapInput(cell) when it has none; so a cell that normalizes to
\* false, null or the empty string, or is not a key of the table, yields the
\* default.
C9_ObjectFields ==
  \A i \in 1..Len(measures) : \A k \in ObjectEntries :
    LET columnObject == sourced_fields[k]
        cell == Cell(qualityCsv[i], columnObject.index)
        candidate == IF columnObject.mappings # <<>>
                     THEN TableEntry(columnObject.mappings, cell)
                     ELSE mapInput(cell).value
    IN  /\ columnObject.key \in DOMAIN measures[i].fields
        /\ measures[i].fields[columnObject.key] =
             IF Truthy(candidate) THEN candidate ELSE columnObject.default

\* the strata rows among the first n that name record i: non-blank rows
\* whose trimmed key is the measureId of record i and of no earlier record
RowsOf(i, n) ==
  {j \in 1..n :
     /\ NonBlank(strataCsv[j])
     /\ Matches(measures[i], trim(strataCsv[j][1]))
     /\ \A h \in 1..(i - 1) : ~Matches(measures[h], trim(strataCsv[j][1]))}

\* the k-th smallest element of a set of numbers
Kth(S, k) == CHOOSE j \in S : Cardinality({h \in S : h < j}) = k - 1

\* a strata row that has the cells the merger trims
HasNameAndDescription(row) == Len(row) >= 4

RECURSIVE Concat(_)
Concat(chunks) == IF chunks = <<>> THEN <<>> ELSE Head(chunks) \o Concat(Tail(chunks))

\* JSON.parse on the documents the chunks of the model can spell: a digit, or
\* an array of digits separated by commas; anything else (the empty text
\* too) is a SyntaxError.  value is the list of elements of an array.
JSONParse(text) ==
  IF Len(text) = 1 /\ IsDigit(text[1])
    THEN [ok |-> TRUE, isArray |-> FALSE, value |-> <<DigitValue(text[1])>>]
  ELSE IF Len(text) >= 2 /\ text[1] = "[" /\ text[Len(text)] = "]"
    THEN LET inner == SubSeq(text, 2, Len(text) - 1)
         IN  IF inner = <<>> THEN [ok |-> TRUE, isArray |-> TRUE, value |-> <<>>]
             ELSE IF /\ Len(inner) % 2 = 1
                     /\ \A i \in 1..Len(inner) :
                          IF i % 2 = 1 THEN IsDigit(inner[i]) ELSE inner[i] = ","
               THEN [ok |-> TRUE, isArray |-> TRUE,
                     value |-> [i \in 1..((Len(inner) + 1) \div 2) |->
                                  DigitValue(inner[2 * i - 1])]]
             ELSE [ok |-> FALSE, isArray |-> FALSE, value |-> <<>>]
  ELSE [ok |-> FALSE, isArray |-> FALSE, value |-> <<>>]

\* ajv.validate against the schema of the schema type: the schema files are
\* not among the sources; the schema stands for an array whose items are
\* unique (uniqueItemProperties)
SchemaValid(document) ==
  /\ document.isArray
  /\ \A i, j \in 1..Len(document.value) :
       document.value[i] = document.value[j] => i = j

\* the lines validate prints, or the SyntaxError JSON.parse throws out of it
validate(text) ==
  Only({ IF ~document.ok THEN [threw |-> TRUE, lines |-> <<>>]
         ELSE IF SchemaValid(document)
           THEN [threw |-> FALSE, lines |-> <<"Valid for">>]
         ELSE [threw |-> FALSE, lines |-> <<"Invalid for", "Detailed error: ">>]
       : document \in {JSONParse(text)} })

\* the body of the script: with a schemaType the two listeners are set,
\* without one the usage message is printed
Script ==
  /\ vpc = "start"
  /\ IF schemaType # ""
     THEN vpc' = "reading" /\ UNCHANGED stdout
     ELSE vpc' = "exit" /\ stdout' = Append(stdout, "Please provide schema type")
  /\ UNCHANGED <<schemaType, stdin, delivered, json, validateArgs, uncaught,
                 mapVars, flagVars, importVars>>

\* 'readable' with data buffered: read() returns every chunk that has
\* arrived and was not read yet, as one string
OnReadable ==
  /\ vpc = "reading"
  /\ \E n \in (delivered + 1)..Len(stdin) :
       /\ json' = json \o Concat(SubSeq(stdin, delivered + 1, n))
       /\ delivered' = n
  /\ UNCHANGED <<schemaType, stdin, vpc, validateArgs, stdout, uncaught,
                 mapVars, flagVars, importVars>>

\* 'readable' at the end of the stream: read() returns null, json is left
OnReadableNull ==
  /\ vpc = "reading"
  /\ delivered = Len(stdin)
  /\ vpc' = "drained"
  /\ UNCHANGED <<schemaType, stdin, delivered, json, validateArgs, stdout,
                 uncaught, mapVars, flagVars, importVars>>

\* 'end': validate(json)
OnEnd ==
  /\ vpc = "drained"
  /\ validateArgs' = Append(validateArgs, json)
  /\ \E printed \in {validate(json)} :
       /\ stdout' = stdout \o printed.lines
       /\ uncaught' = printed.threw
  /\ vpc' = "ended"
  /\ UNCHANGED <<schemaType, stdin, delivered, json, mapVars, flagVars, importVars>>

NextValidate == Script \/ OnReadable \/ OnReadableNull \/ OnEnd

Chunks ==
  { <<"[">>, <<"]">>, <<"1">>, <<"[", "1">>, <<",", "1">>, <<",", "2">> }

InitValidate ==
  /\ schemaType \in {"", "measures"}
  /\ stdin \in SeqUpTo(Chunks, MaxChunks)
  /\ delivered = 0 /\ json = <<>> /\ vpc = "start" /\ validateArgs = <<>>
  /\ stdout = <<>> /\ uncaught = FALSE
  /\ IdleMap /\ IdleFlags /\ IdleImport

SpecValidate == InitValidate /\ [][NextValidate]_vars

Verdicts == {i \in 1..Len(stdout) : stdout[i] \in {"Valid for", "Invalid for"}}
Details == {i \in 1..Len(stdout) : stdout[i] = "Detailed error: "}

\* C10: with a schemaType, validate is invoked exactly once, only after the
\* end of standard input, on the concatenation of the chunks in arrival
\* order, and nothing is thrown: exactly one verdict line is printed, and the
\* detailed error listing if and only if the verdict is invalid.  Without a
\* schemaType validate is never invoked and only the usage message is
\* printed.
C10_OneVerdict ==
  /\ Len(validateArgs) <= 1
  /\ validateArgs # <<>> =>
       /\ schemaType # "" /\ vpc = "ended" /\ delivered = Len(stdin)
       /\ validateArgs[1] = Concat(stdin)
  /\ (schemaType # "" /\ vpc = "ended") =>
       /\ Len(validateArgs) = 1
       /\ ~uncaught
       /\ Cardinality(Verdicts) = 1
       /\ Cardinality(Details) <= 1
       /\ Details # {} <=> (\E i \in Verdicts : stdout[i] = "Invalid for")
  /\ (schemaType # "" /\ vpc # "ended") => stdout = <<>>
  /\ schemaType = "" =>
       /\ validateArgs = <<>>
       /\ vpc \in {"start", "exit"}
       /\ vpc = "exit" => stdout = <<"Please provide schema type">>

====
